---- MODULE Spec2Model ----
(***************************************************************************)
(* Model of telegram_dictionary_bot.py: the /add conversation, the         *)
(* dictionary file it writes, /delete, the read-only admin commands and    *)
(* the word search.                                                        *)
(*                                                                         *)
(* A text is a sequence of characters.  The seven characters "update_" are *)
(* one element of a text, so that startswith("update_") and                *)
(* replace("update_", "") are computed as Python computes them on the      *)
(* texts below.                                                            *)
(***************************************************************************)
EXTENDS Integers, Sequences, FiniteSets, TLC

(***************************************************************************)
(* Python str operations on texts                                          *)
(***************************************************************************)
Whitespace == {" ", "\n"}

LowerChar(ch) == IF ch = "A" THEN "a" ELSE IF ch = "B" THEN "b" ELSE ch

Lower(s) == [i \in 1..Len(s) |-> LowerChar(s[i])]

RECURSIVE LStrip(_)
LStrip(s) == IF s # << >> /\ Head(s) \in Whitespace THEN LStrip(Tail(s)) ELSE s

RECURSIVE RStrip(_)
RStrip(s) == IF s # << >> /\ s[Len(s)] \in Whitespace
             THEN RStrip(SubSeq(s, 1, Len(s) - 1)) ELSE s

Strip(s) == RStrip(LStrip(s))

\* s.split(sep) for a one-character sep: always at least one piece
RECURSIVE SplitAcc(_, _, _)
SplitAcc(s, sep, cur) ==
    IF s = << >> THEN << cur >>
    ELSE IF Head(s) = sep THEN << cur >> \o SplitAcc(Tail(s), sep, << >>)
    ELSE SplitAcc(Tail(s), sep, Append(cur, Head(s)))

Split(s, sep) == SplitAcc(s, sep, << >>)

\* s.split() with no separator: pieces between runs of whitespace, none empty
RECURSIVE SplitWsAcc(_, _)
SplitWsAcc(s, cur) ==
    IF s = << >> THEN (IF cur = << >> THEN << >> ELSE << cur >>)
    ELSE IF Head(s) \in Whitespace
         THEN (IF cur = << >> THEN << >> ELSE << cur >>) \o SplitWsAcc(Tail(s), << >>)
    ELSE SplitWsAcc(Tail(s), Append(cur, Head(s)))

SplitWs(s) == SplitWsAcc(s, << >>)

\* sep.join(parts)
RECURSIVE Join(_, _)
Join(parts, sep) ==
    IF parts = << >> THEN << >>
    ELSE IF Len(parts) = 1 THEN parts[1]
    ELSE parts[1] \o sep \o Join(Tail(parts), sep)

StartsWith(s, ch) == s # << >> /\ Head(s) = ch

\* s.replace(ch, ""): every occurrence is removed
Replace(s, ch) == SelectSeq(s, LAMBDA e : e # ch)

\* [f(x) for x in seq if p(x)] pieces used by the handlers
RECURSIVE StripEach(_)
StripEach(parts) ==
    IF parts = << >> THEN << >> ELSE << Strip(Head(parts)) >> \o StripEach(Tail(parts))

NonEmpty(parts) == SelectSeq(parts, LAMBDA p : p # << >>)

(***************************************************************************)
(* Identities and inputs                                                   *)
(***************************************************************************)
Users == {1, 2, 3}
ADMIN_IDS == {1, 2}
Chats == {1, 2}

TermInputs == { <<"a">>, <<" ", "A", " ">>, <<"a", ",", "b">>,
                <<"a", " ", " ", "b">>, <<"update_", "a">> }
\* a term in which whitespace follows "update_"
PrefixedTerms == { <<"update_", " ", "a">> }
MeaningInputs == { <<"m">>, <<" ", "n", " ">> }
ExampleInputs == { <<" ", "\n", " ">>, <<" ", "x", " ", "\n", "\n", "y">> }
DeleteArgs == { << >>, <<"A">>, <<"a", ",", "b">>, <<"a", " ", " ", "b">>,
                <<"update_", "a">> }
Queries == { <<" ", "A", " ">>, <<"a", ",", "b">>, <<"a", " ", " ", "b">>,
             <<"update_", "a">>, <<"a", ",", "a", " ", " ", "b">>,
             <<"a", ",", ",", "A">> }

\* ConversationHandler states; END is the absence of a conversation
WORD == 0
MEANING == 1
EXAMPLE == 2
END == -1

UPDATE_ == "update_"
CANCEL_ADD == << "cancel_add" >>

\* the check if it let everyone in
is_admin_anyone(user_id) == user_id \in Users

is_admin(user_id) == user_id \in ADMIN_IDS

(***************************************************************************)
(* State                                                                   *)
(***************************************************************************)
VARIABLES
    dictionary,  \* content of dictionary.json: word -> [meaning, examples]
    conv,        \* ConversationHandler state of each (chat, user) key
    user_data,   \* context.user_data of each user: a dict of pending fields
    keyboard,    \* callback data of the latest inline keyboard sent in each chat
    last,        \* the update handled last and the reply it produced
    script,      \* raw texts sent so far in the /add dialogue started last
    tasks,       \* position of each user's handler inside a load-modify-save
    file_exists  \* whether dictionary.json has been written yet

vars == << dictionary, conv, user_data, keyboard, last, script, tasks,
           file_exists >>

\* chat 1 is a group with every user in it, chat 2 is the private chat of user 1
Members(c) == IF c = 1 THEN Users ELSE {1}

Keys == { k \in Chats \X Users : k[2] \in Members(k[1]) }

EmptyDict == << >>

\* d[k] = v on a Python dict
Put(d, k, v) == [x \in (DOMAIN d) \cup {k} |-> IF x = k THEN v ELSE d[x]]

\* the dict if the deletion emptied it
DelAll(d, k) == EmptyDict

\* del d[k]
Del(d, k) == [x \in (DOMAIN d) \ {k} |-> d[x]]

\* the handler run last, the conversation state it was run in, and its
\* reply: its kind, its inline buttons, the entries it shows, the words it
\* names, and whether the handler wrote the file; for a search, the text
\* searched for
NoReply == [handler |-> "none", state |-> -1, kind |-> "none", buttons |-> << >>,
            found |-> << >>, words |-> << >>, saved |-> FALSE, query |-> << >>]

Reply(h, st, k) == [NoReply EXCEPT !.handler = h, !.state = st, !.kind = k]

NoScript == [user |-> 0, chat |-> 0, n |-> 0, term |-> << >>, meaning |-> << >>,
             examples |-> << >>]

IdleTask == [pc |-> "idle", handler |-> "none", chat |-> 0, word |-> << >>,
             entry |-> << >>, dict |-> << >>]

\* the scheduling if the file accesses were awaited
HoldsThreadNever(pc) == FALSE

\* a handler between load_dictionary() and save_dictionary() runs plain
\* synchronous code: it keeps the event loop's only thread
HoldsThread(pc) == pc = "loaded"

\* Application processes one update at a time (concurrent_updates is off)
CanRun(u) == /\ tasks[u].pc = "idle"
             /\ \A v \in Users : ~HoldsThread(tasks[v].pc)

Init ==
    /\ dictionary = EmptyDict
    /\ conv = [k \in Keys |-> END]
    /\ user_data = [u \in Users |-> EmptyDict]
    /\ keyboard = [c \in Chats |-> << >>]
    /\ last = NoReply
    /\ script = NoScript
    /\ tasks = [u \in Users |-> IdleTask]
    /\ file_exists = FALSE

(***************************************************************************)
(* Dispatch: the handlers registered in main()                             *)
(***************************************************************************)
\* handlers after the ConversationHandler in the same group
Fallthrough(kind) ==
    IF kind = "/delete" THEN "delete_word"
    ELSE IF kind = "/list" THEN "list_words"
    ELSE IF kind = "/stats" THEN "stats"
    ELSE IF kind = "/backup" THEN "backup"
    ELSE IF kind = "text" THEN "search_words"
    ELSE "none"

\* the dispatch if the cancel button were no fallback
HandlerForNoButtonFallback(state, kind, data) ==
    IF state = END
    THEN (IF kind = "/add" THEN "add_word_start" ELSE Fallthrough(kind))
    ELSE IF state = WORD /\ kind = "text" THEN "receive_word"
    ELSE IF state = WORD /\ kind = "callback" THEN "button_callback"
    ELSE IF state = MEANING /\ kind = "text" THEN "receive_meaning"
    ELSE IF state = EXAMPLE /\ kind = "text" THEN "receive_examples"
    ELSE IF kind = "/cancel" THEN "cancel_add"
    ELSE Fallthrough(kind)

\* ConversationHandler: entry points only without a conversation (no
\* allow_reentry), otherwise the handlers of the state, then the fallbacks
HandlerFor(state, kind, data) ==
    IF state = END
    THEN (IF kind = "/add" THEN "add_word_start" ELSE Fallthrough(kind))
    ELSE IF state = WORD /\ kind = "text" THEN "receive_word"
    ELSE IF state = WORD /\ kind = "callback" THEN "button_callback"
    ELSE IF state = MEANING /\ kind = "text" THEN "receive_meaning"
    ELSE IF state = EXAMPLE /\ kind = "text" THEN "receive_examples"
    ELSE IF kind = "/cancel" THEN "cancel_add"
    ELSE IF kind = "callback" /\ data = CANCEL_ADD THEN "button_callback"
    ELSE Fallthrough(kind)

\* the raw texts of the /add dialogue started last, while its user does
\* nothing but the next step of it; n = 4 in the state the commit produces
Track(u, c, h, text) ==
    IF h = "add_word_start" /\ is_admin(u)
       /\ \A k \in Keys : k[2] = u => conv[k] = END
    THEN [NoScript EXCEPT !.user = u, !.chat = c, !.n = 1]
    ELSE IF script.n = 4 THEN NoScript
    ELSE IF script.user # u THEN script
    ELSE IF h = "receive_word" /\ script.n = 1 /\ script.chat = c
            /\ Lower(Strip(text)) \notin DOMAIN dictionary
    THEN [script EXCEPT !.n = 2, !.term = text]
    ELSE IF h = "receive_meaning" /\ script.n = 2 /\ script.chat = c
    THEN [script EXCEPT !.n = 3, !.meaning = text]
    ELSE IF h = "receive_examples" /\ script.n = 3 /\ script.chat = c
    THEN [script EXCEPT !.n = 4, !.examples = text]
    ELSE NoScript

(***************************************************************************)
(* The /add conversation                                                   *)
(***************************************************************************)
add_word_start(c, u) ==
    /\ CanRun(u)
    /\ HandlerFor(conv[<<c, u>>], "/add", << >>) = "add_word_start"
    /\ IF ~is_admin(u)
       THEN /\ last' = Reply("add_word_start", conv[<<c, u>>], "admins_only")
            /\ conv' = [conv EXCEPT ![<<c, u>>] = END]
       ELSE /\ last' = Reply("add_word_start", conv[<<c, u>>], "enter_word")
            /\ conv' = [conv EXCEPT ![<<c, u>>] = WORD]
    /\ script' = Track(u, c, "add_word_start", << >>)
    /\ UNCHANGED << dictionary, user_data, keyboard, tasks, file_exists >>

\* the prompt if it had no cancel button
KeyboardUpdateOnly(word) == << <<UPDATE_>> \o word >>

\* lines 130-135: the two buttons of the prompt, as their callback data
Keyboard(word) == << <<UPDATE_>> \o word, CANCEL_ADD >>

receive_word(c, u, text) ==
    LET word == Lower(Strip(text)) IN
    /\ CanRun(u)
    /\ HandlerFor(conv[<<c, u>>], "text", text) = "receive_word"
    /\ user_data' = [user_data EXCEPT ![u] = Put(@, "new_word", word)]
    /\ IF word \in DOMAIN dictionary
       THEN /\ keyboard' = [keyboard EXCEPT ![c] = Keyboard(word)]
            /\ last' = [Reply("receive_word", conv[<<c, u>>], "already_exists")
                          EXCEPT !.buttons = Keyboard(word),
                                 !.words = << word >>,
                                 !.found = << dictionary[word].meaning >>]
            /\ conv' = [conv EXCEPT ![<<c, u>>] = WORD]
       ELSE /\ keyboard' = keyboard
            /\ last' = Reply("receive_word", conv[<<c, u>>], "enter_meaning")
            /\ conv' = [conv EXCEPT ![<<c, u>>] = MEANING]
    /\ script' = Track(u, c, "receive_word", text)
    /\ UNCHANGED << dictionary, tasks, file_exists >>

\* the handler if it returned ConversationHandler.END
receive_meaning_ends(c, u, text) ==
    LET meaning == Strip(text) IN
    /\ CanRun(u)
    /\ HandlerFor(conv[<<c, u>>], "text", text) = "receive_meaning"
    /\ user_data' = [user_data EXCEPT ![u] = Put(@, "meaning", meaning)]
    /\ last' = Reply("receive_meaning", conv[<<c, u>>], "enter_examples")
    /\ conv' = [conv EXCEPT ![<<c, u>>] = END]
    /\ script' = Track(u, c, "receive_meaning", text)
    /\ UNCHANGED << dictionary, keyboard, tasks, file_exists >>

receive_meaning(c, u, text) ==
    LET meaning == Strip(text) IN
    /\ CanRun(u)
    /\ HandlerFor(conv[<<c, u>>], "text", text) = "receive_meaning"
    /\ user_data' = [user_data EXCEPT ![u] = Put(@, "meaning", meaning)]
    /\ last' = Reply("receive_meaning", conv[<<c, u>>], "enter_examples")
    /\ conv' = [conv EXCEPT ![<<c, u>>] = EXAMPLE]
    /\ script' = Track(u, c, "receive_meaning", text)
    /\ UNCHANGED << dictionary, keyboard, tasks, file_exists >>

\* the examples if blank lines were kept
ParseExamplesKeepBlank(text) == StripEach(Split(Strip(text), "\n"))

\* line 173-174: one example per non-empty line
ParseExamples(text) == NonEmpty(StripEach(Split(Strip(text), "\n")))

receive_examples(c, u, text) ==
    LET examples == ParseExamples(text) IN
    /\ CanRun(u)
    /\ HandlerFor(conv[<<c, u>>], "text", text) = "receive_examples"
    /\ IF {"new_word", "meaning"} \subseteq DOMAIN user_data[u]
       THEN LET word == user_data[u]["new_word"]
                meaning == user_data[u]["meaning"]
            IN /\ dictionary' = Put(dictionary, word,
                                    [meaning |-> meaning, examples |-> examples])
               /\ user_data' = [user_data EXCEPT ![u] = EmptyDict]
               /\ last' = [Reply("receive_examples", conv[<<c, u>>], "added")
                             EXCEPT !.saved = TRUE, !.words = << word >>]
               /\ conv' = [conv EXCEPT ![<<c, u>>] = END]
               /\ file_exists' = TRUE
       ELSE \* KeyError at line 176 or 177: the state is kept
            /\ last' = Reply("receive_examples", conv[<<c, u>>], "KeyError")
            /\ UNCHANGED << dictionary, user_data, conv, file_exists >>
    /\ script' = Track(u, c, "receive_examples", text)
    /\ UNCHANGED << keyboard, tasks >>

\* the body of cancel_add if it cleared the pending fields of every user
CancelEffectEveryone(c, u, h) ==
    /\ user_data' = [v \in Users |-> EmptyDict]
    /\ last' = Reply(h, conv[<<c, u>>], "cancelled")
    /\ conv' = [conv EXCEPT ![<<c, u>>] = END]

\* the body of cancel_add, for the command and for the button
CancelEffect(c, u, h) ==
    /\ user_data' = [user_data EXCEPT ![u] = EmptyDict]
    /\ last' = Reply(h, conv[<<c, u>>], "cancelled")
    /\ conv' = [conv EXCEPT ![<<c, u>>] = END]

cancel_add(c, u) ==
    /\ CanRun(u)
    /\ HandlerFor(conv[<<c, u>>], "/cancel", << >>) = "cancel_add"
    /\ CancelEffect(c, u, "cancel_add")
    /\ script' = Track(u, c, "cancel_add", << >>)
    /\ UNCHANGED << dictionary, keyboard, tasks, file_exists >>

\* the buttons a user of chat c can press
Buttons(c) == { keyboard[c][i] : i \in 1..Len(keyboard[c]) }

button_callback(c, u, data) ==
    /\ CanRun(u)
    /\ data \in Buttons(c)
    /\ HandlerFor(conv[<<c, u>>], "callback", data) = "button_callback"
    /\ IF StartsWith(data, UPDATE_)
       THEN LET word == Replace(data, UPDATE_) IN
            /\ user_data' = [user_data EXCEPT ![u] = Put(@, "new_word", word)]
            /\ last' = Reply("button_callback", conv[<<c, u>>], "enter_new_meaning")
            /\ conv' = [conv EXCEPT ![<<c, u>>] = MEANING]
       ELSE IF data = CANCEL_ADD
       THEN CancelEffect(c, u, "button_callback")
       ELSE /\ last' = Reply("button_callback", conv[<<c, u>>], "none")
            /\ UNCHANGED << user_data, conv >>
    /\ script' = Track(u, c, "button_callback", data)
    /\ UNCHANGED << dictionary, keyboard, tasks, file_exists >>

\* an update no registered handler accepts
unhandled(c, u, kind, data) ==
    /\ CanRun(u)
    /\ kind \in {"/add", "/cancel", "callback"}
    /\ kind = "callback" => data \in Buttons(c)
    /\ kind # "callback" => data = << >>
    /\ HandlerFor(conv[<<c, u>>], kind, data) = "none"
    /\ last' = Reply("none", conv[<<c, u>>], kind)
    /\ script' = Track(u, c, "none", data)
    /\ UNCHANGED << dictionary, conv, user_data, keyboard, tasks, file_exists >>

(***************************************************************************)
(* /delete, /list, /stats, /backup and the word search                     *)
(***************************************************************************)
\* context.args of "/delete <arg>" is the text split at whitespace
Args(arg) == SplitWs(arg)

delete_word(c, u, arg) ==
    /\ CanRun(u)
    /\ HandlerFor(conv[<<c, u>>], "/delete", arg) = "delete_word"
    /\ IF ~is_admin(u)
       THEN /\ last' = Reply("delete_word", conv[<<c, u>>], "admins_only")
            /\ UNCHANGED << dictionary, file_exists >>
       ELSE IF Args(arg) = << >>
       THEN /\ last' = Reply("delete_word", conv[<<c, u>>], "usage")
            /\ UNCHANGED << dictionary, file_exists >>
       ELSE LET word == Lower(Join(Args(arg), <<" ">>)) IN
            IF word \in DOMAIN dictionary
            THEN /\ dictionary' = Del(dictionary, word)
                 /\ file_exists' = TRUE
                 /\ last' = [Reply("delete_word", conv[<<c, u>>], "deleted")
                               EXCEPT !.saved = TRUE, !.words = << word >>]
            ELSE /\ UNCHANGED << dictionary, file_exists >>
                 /\ last' = [Reply("delete_word", conv[<<c, u>>], "not_found")
                               EXCEPT !.words = << word >>]
    /\ script' = Track(u, c, "delete_word", arg)
    /\ UNCHANGED << conv, user_data, keyboard, tasks >>

\* /list, /stats and /backup read the file and write nothing
list_words(c, u) ==
    /\ CanRun(u)
    /\ HandlerFor(conv[<<c, u>>], "/list", << >>) = "list_words"
    /\ last' = Reply("list_words", conv[<<c, u>>],
                     IF ~is_admin(u) THEN "admins_only"
                     ELSE IF dictionary = EmptyDict THEN "empty" ELSE "list")
    /\ script' = Track(u, c, "list_words", << >>)
    /\ UNCHANGED << dictionary, conv, user_data, keyboard, tasks, file_exists >>

stats(c, u) ==
    /\ CanRun(u)
    /\ HandlerFor(conv[<<c, u>>], "/stats", << >>) = "stats"
    /\ last' = Reply("stats", conv[<<c, u>>],
                     IF ~is_admin(u) THEN "admins_only" ELSE "statistics")
    /\ script' = Track(u, c, "stats", << >>)
    /\ UNCHANGED << dictionary, conv, user_data, keyboard, tasks, file_exists >>

backup(c, u) ==
    /\ CanRun(u)
    /\ HandlerFor(conv[<<c, u>>], "/backup", << >>) = "backup"
    /\ last' = Reply("backup", conv[<<c, u>>],
                     IF ~is_admin(u) THEN "admins_only"
                     ELSE IF file_exists THEN "document" ELSE "no_file")
    /\ script' = Track(u, c, "backup", << >>)
    /\ UNCHANGED << dictionary, conv, user_data, keyboard, tasks, file_exists >>

\* line 343: the words of a query
QueryWords(query) ==
    LET parts == Split(Strip(query), ",")
    IN [i \in 1..Len(parts) |-> Lower(Strip(parts[i]))]

\* lines 357-369: the entries found and the words not found, in query order
RECURSIVE Results(_, _)
Results(words, d) ==
    IF words = << >> THEN << >>
    ELSE (IF Head(words) \in DOMAIN d
          THEN << [word |-> Head(words), meaning |-> d[Head(words)].meaning,
                   examples |-> d[Head(words)].examples] >>
          ELSE << >>) \o Results(Tail(words), d)

\* the words not found if a word matched every key it begins
NotFoundPartial(words, d) ==
    SelectSeq(words, LAMBDA w : \A k \in DOMAIN d :
                                   Len(k) < Len(w) \/ SubSeq(k, 1, Len(w)) # w)

NotFound(words, d) == SelectSeq(words, LAMBDA w : w \notin DOMAIN d)

search_words(c, u, query) ==
    /\ CanRun(u)
    /\ HandlerFor(conv[<<c, u>>], "text", query) = "search_words"
    /\ IF dictionary = EmptyDict
       THEN last' = [Reply("search_words", conv[<<c, u>>], "empty")
                       EXCEPT !.query = query]
       ELSE last' = [Reply("search_words", conv[<<c, u>>], "results")
                       EXCEPT !.query = query,
                              !.found = Results(QueryWords(query), dictionary),
                              !.words = NotFound(QueryWords(query), dictionary)]
    /\ script' = Track(u, c, "search_words", query)
    /\ UNCHANGED << dictionary, conv, user_data, keyboard, tasks, file_exists >>

(***************************************************************************)
(* Specification: one update is handled at a time                          *)
(***************************************************************************)
CallbackData ==
    { <<UPDATE_>> \o Lower(Strip(t)) : t \in TermInputs \cup PrefixedTerms }
    \cup {CANCEL_ADD}

\* the dictionary is explored up to this many words
MaxEntries == 2

\* every update user u can send in chat c, with texts from the given sets
Handle(c, u, terms, args, queries) ==
        \/ add_word_start(c, u)
        \/ \E text \in terms : receive_word(c, u, text)
        \/ \E text \in MeaningInputs : receive_meaning(c, u, text)
        \/ \E text \in ExampleInputs :
              /\ receive_examples(c, u, text)
              /\ Cardinality(DOMAIN dictionary') <= MaxEntries
        \/ cancel_add(c, u)
        \/ \E data \in CallbackData : button_callback(c, u, data)
        \/ \E kind \in {"/add", "/cancel"} : unhandled(c, u, kind, << >>)
        \/ \E data \in CallbackData : unhandled(c, u, "callback", data)
        \/ \E arg \in args : delete_word(c, u, arg)
        \/ list_words(c, u)
        \/ stats(c, u)
        \/ backup(c, u)
        \/ \E query \in queries : search_words(c, u, query)

\* every user in the group chat, one term in two variants
Next ==
    \E u \in Users :
        Handle(1, u, { <<"a">>, <<" ", "A", " ">> }, { <<"A">> }, { <<" ", "A", " ">> })

Spec == Init /\ [][Next]_vars

\* user 1 in the group chat and in the private chat
NextChats ==
    \E c \in Chats :
        Handle(c, 1, { <<"a">>, <<"a", ",", "b">> }, { <<"A">> }, { <<" ", "A", " ">> })

SpecChats == Init /\ [][NextChats]_vars

\* one admin, every term, /delete argument and query
NextStore ==
    Handle(1, 1, TermInputs, DeleteArgs, Queries)

SpecStore == Init /\ [][NextStore]_vars

\* one admin, a term that begins with "update_" and a plain one
NextKeys ==
    Handle(1, 1, PrefixedTerms \cup { <<" ", "A", " ">> },
           { <<"A">>, <<"update_", " ", "a">> }, { <<" ", "A", " ">> })

SpecKeys == Init /\ [][NextKeys]_vars

(***************************************************************************)
(* The load-modify-save of receive_examples and delete_word, statement by  *)
(* statement                                                               *)
(***************************************************************************)
\* lines 173-179: the handler has read the pending fields and the file
examples_load(c, u, text) ==
    /\ CanRun(u)
    /\ HandlerFor(conv[<<c, u>>], "text", text) = "receive_examples"
    /\ {"new_word", "meaning"} \subseteq DOMAIN user_data[u]
    /\ tasks' = [tasks EXCEPT ![u] =
                   [pc |-> "loaded", handler |-> "receive_examples", chat |-> c,
                    word |-> user_data[u]["new_word"],
                    entry |-> [meaning |-> user_data[u]["meaning"],
                               examples |-> ParseExamples(text)],
                    dict |-> dictionary]]
    /\ script' = Track(u, c, "load", text)
    /\ UNCHANGED << dictionary, conv, user_data, keyboard, last, file_exists >>

\* lines 180-201: the entry is set in the loaded dict, which is written back
examples_save(u) ==
    /\ tasks[u].pc = "loaded"
    /\ tasks[u].handler = "receive_examples"
    /\ \A v \in Users \ {u} : ~HoldsThread(tasks[v].pc)
    /\ dictionary' = Put(tasks[u].dict, tasks[u].word, tasks[u].entry)
    /\ file_exists' = TRUE
    /\ user_data' = [user_data EXCEPT ![u] = EmptyDict]
    /\ last' = [Reply("receive_examples", conv[<<tasks[u].chat, u>>], "added")
                  EXCEPT !.saved = TRUE, !.words = << tasks[u].word >>]
    /\ conv' = [conv EXCEPT ![<<tasks[u].chat, u>>] = END]
    /\ tasks' = [tasks EXCEPT ![u] = IdleTask]
    /\ UNCHANGED << keyboard, script >>

\* lines 253-254: the word is computed and the file read
delete_load(c, u, arg) ==
    /\ CanRun(u)
    /\ HandlerFor(conv[<<c, u>>], "/delete", arg) = "delete_word"
    /\ is_admin(u)
    /\ Args(arg) # << >>
    /\ tasks' = [tasks EXCEPT ![u] =
                   [pc |-> "loaded", handler |-> "delete_word", chat |-> c,
                    word |-> Lower(Join(Args(arg), <<" ">>)),
                    entry |-> << >>, dict |-> dictionary]]
    /\ script' = Track(u, c, "load", arg)
    /\ UNCHANGED << dictionary, conv, user_data, keyboard, last, file_exists >>

\* lines 256-267: the word is removed from the loaded dict, which is written back
delete_save(u) ==
    /\ tasks[u].pc = "loaded"
    /\ tasks[u].handler = "delete_word"
    /\ \A v \in Users \ {u} : ~HoldsThread(tasks[v].pc)
    /\ IF tasks[u].word \in DOMAIN tasks[u].dict
       THEN /\ dictionary' = Del(tasks[u].dict, tasks[u].word)
            /\ file_exists' = TRUE
            /\ last' = [Reply("delete_word", conv[<<tasks[u].chat, u>>], "deleted")
                          EXCEPT !.saved = TRUE, !.words = << tasks[u].word >>]
       ELSE /\ UNCHANGED << dictionary, file_exists >>
            /\ last' = [Reply("delete_word", conv[<<tasks[u].chat, u>>], "not_found")
                          EXCEPT !.words = << tasks[u].word >>]
    /\ tasks' = [tasks EXCEPT ![u] = IdleTask]
    /\ UNCHANGED << conv, user_data, keyboard, script >>

\* the two admins in the group chat, the file accesses as separate steps
NextRMW ==
    \E u \in ADMIN_IDS :
        \/ add_word_start(1, u)
        \/ \E text \in { <<"a">>, <<"a", ",", "b">> } : receive_word(1, u, text)
        \/ \E text \in MeaningInputs : receive_meaning(1, u, text)
        \/ \E text \in ExampleInputs : examples_load(1, u, text)
        \/ examples_save(u)
        \/ cancel_add(1, u)
        \/ \E data \in CallbackData : button_callback(1, u, data)
        \/ \E arg \in { <<"A">>, <<"a", ",", "b">> } : delete_load(1, u, arg)
        \/ delete_save(u)

SpecRMW == Init /\ [][NextRMW]_vars

(***************************************************************************)
(* What the specification says, stated without the handlers' own helpers   *)
(***************************************************************************)
Privileged(u) == u \in {1, 2}

Visible(s) == { i \in 1..Len(s) : s[i] \notin {" ", "\n"} }

SetMin(S) == CHOOSE i \in S : \A j \in S : i <= j

SetMax(S) == CHOOSE i \in S : \A j \in S : j <= i

\* s without its leading and trailing whitespace
Trimmed(s) == IF Visible(s) = {} THEN << >>
              ELSE SubSeq(s, SetMin(Visible(s)), SetMax(Visible(s)))

\* the normalized form of a term: trimmed and lower-cased
Normalized(s) ==
    LET t == Trimmed(s)
    IN [i \in 1..Len(t) |->
          IF t[i] = "A" THEN "a" ELSE IF t[i] = "B" THEN "b" ELSE t[i]]

\* the lines of a text, from position start on
RECURSIVE LinesFrom(_, _)
LinesFrom(s, start) ==
    LET nl == { i \in start..Len(s) : s[i] = "\n" }
    IN IF nl = {} THEN << SubSeq(s, start, Len(s)) >>
       ELSE << SubSeq(s, start, SetMin(nl) - 1) >> \o LinesFrom(s, SetMin(nl) + 1)

\* the trimmed non-empty lines of a text, in their order
TrimmedLines(s) ==
    SelectSeq([i \in 1..Len(LinesFrom(s, 1)) |-> Trimmed(LinesFrom(s, 1)[i])],
              LAMBDA l : l # << >>)

Open(k) == conv[k] # END

\* the pieces of a text between its commas, from position start on
RECURSIVE TokensFrom(_, _)
TokensFrom(s, start) ==
    LET commas == { i \in start..Len(s) : s[i] = "," }
    IN IF commas = {} THEN << SubSeq(s, start, Len(s)) >>
       ELSE << SubSeq(s, start, SetMin(commas) - 1) >>
            \o TokensFrom(s, SetMin(commas) + 1)

\* the normalized tokens of a comma-separated query, in query order
Tokens(q) ==
    LET parts == TokensFrom(q, 1)
    IN [i \in 1..Len(parts) |-> Normalized(parts[i])]

Range(seq) == { seq[i] : i \in 1..Len(seq) }

\* a is b with some of its elements left out
RECURSIVE IsSubseq(_, _)
IsSubseq(a, b) ==
    IF a = << >> THEN TRUE
    ELSE IF b = << >> THEN FALSE
    ELSE IF Head(a) = Head(b) THEN IsSubseq(Tail(a), Tail(b))
    ELSE IsSubseq(a, Tail(b))

NoRepeat(seq) == \A i, j \in 1..Len(seq) : i # j => seq[i] # seq[j]

(***************************************************************************)
(* C1                                                                      *)
(***************************************************************************)
\* C1 as stated: after entry point, new term t, meaning m and examples text x
\* by an admin who had no open conversation, the dictionary maps normalize(t)
\* to exactly m and the trimmed non-empty lines of x, the conversation is
\* over and the pending fields are gone.
C1_CommitsRawMeaning ==
    script.n = 4 =>
        /\ Normalized(script.term) \in DOMAIN dictionary
        /\ dictionary[Normalized(script.term)] =
               [meaning |-> script.meaning,
                examples |-> TrimmedLines(script.examples)]
        /\ ~Open(<<script.chat, script.user>>)
        /\ user_data[script.user] = EmptyDict

\* C1 amended: the same, the stored meaning being m without its leading and
\* trailing whitespace; a text of blank lines commits an entry with no
\* examples.
C1_CommitsTrimmedMeaning ==
    script.n = 4 =>
        /\ Normalized(script.term) \in DOMAIN dictionary
        /\ dictionary[Normalized(script.term)] =
               [meaning |-> Trimmed(script.meaning),
                examples |-> TrimmedLines(script.examples)]
        /\ ~Open(<<script.chat, script.user>>)
        /\ user_data[script.user] = EmptyDict
        /\ last.kind = "added"

\* a commit whose examples text has only blank lines
C1_Witness ==
    /\ script.n = 4
    /\ TrimmedLines(script.examples) = << >>
    /\ script.examples # << >>
    /\ dictionary[Normalized(script.term)].examples = << >>

(***************************************************************************)
(* C2                                                                      *)
(***************************************************************************)
\* C2: a term whose normalized form is already in the dictionary leaves the
\* conversation at the term stage and the dictionary as it was, and the
\* reply is a prompt with exactly the two choices confirm-update and cancel;
\* the cancel choice then ends the conversation, dictionary unchanged.
C2_CollisionPrompt ==
    [][ \A k \in Keys :
          /\ \A t \in TermInputs :
               (last'.handler = "receive_word" /\ conv[k] = WORD
                /\ receive_word(k[1], k[2], t)
                /\ Normalized(t) \in DOMAIN dictionary)
               => /\ conv'[k] = WORD
                  /\ dictionary' = dictionary
                  /\ last'.kind = "already_exists"
                  /\ Len(last'.buttons) = 2
                  /\ last'.buttons[1] = << "update_" >> \o Normalized(t)
                  /\ last'.buttons[2] = << "cancel_add" >>
          /\ (last.kind = "already_exists" /\ conv[k] = WORD
              /\ button_callback(k[1], k[2], last.buttons[2]))
               => /\ ~Open(k)'
                  /\ user_data'[k[2]] = EmptyDict
                  /\ dictionary' = dictionary
                  /\ last'.kind = "cancelled"
      ]_vars

\* the cancel choice has been taken on a prompt
C2_Witness ==
    /\ last.handler = "button_callback"
    /\ last.kind = "cancelled"
    /\ keyboard[1] # << >>
    /\ dictionary # EmptyDict

(***************************************************************************)
(* C3                                                                      *)
(***************************************************************************)
\* C3: the confirm-update choice on the prompt raised for a term moves the
\* conversation to the meaning stage with that same term pending.
C3_ConfirmKeepsTerm ==
    [][ \A k \in Keys :
          (last.kind = "already_exists" /\ conv[k] = WORD
           /\ button_callback(k[1], k[2], last.buttons[1]))
          => /\ conv'[k] = MEANING
             /\ user_data'[k[2]]["new_word"] = last.words[1]
      ]_vars

(***************************************************************************)
(* C4                                                                      *)
(***************************************************************************)
\* C4: /add from a user who is not an admin is answered with the permission
\* failure, opens no conversation, and changes neither the dictionary nor
\* any conversation or pending field.
C4_UnprivilegedAdd ==
    [][ \A k \in Keys :
          (~Privileged(k[2]) /\ add_word_start(k[1], k[2]))
          => /\ last'.kind = "admins_only"
             /\ ~Open(k)'
             /\ conv' = conv
             /\ user_data' = user_data
             /\ dictionary' = dictionary
      ]_vars

\* the permission failure was given while an admin's conversation is open
C4_Witness ==
    /\ last.handler = "add_word_start"
    /\ last.kind = "admins_only"
    /\ \E k \in Keys : Open(k) /\ "new_word" \in DOMAIN user_data[k[2]]

(***************************************************************************)
(* C5                                                                      *)
(***************************************************************************)
\* C5: at every stage of an open conversation the cancel command and the
\* cancel choice are both accepted, and each ends the conversation, empties
\* the pending fields and leaves the dictionary unchanged.
C5_CancelAnyStage ==
    /\ [](\A k \in Keys : Open(k) =>
             /\ ENABLED cancel_add(k[1], k[2])
             /\ (<< "cancel_add" >> \in Buttons(k[1])
                 => ENABLED button_callback(k[1], k[2], << "cancel_add" >>)))
    /\ [][ \A k \in Keys :
             (Open(k) /\ (\/ cancel_add(k[1], k[2])
                          \/ button_callback(k[1], k[2], << "cancel_add" >>)))
             => /\ ~Open(k)'
                /\ user_data'[k[2]] = EmptyDict
                /\ dictionary' = dictionary
                /\ last'.kind = "cancelled"
         ]_vars

\* the cancel choice has been taken after the meaning was given
C5_Witness ==
    /\ last.handler = "button_callback"
    /\ last.kind = "cancelled"
    /\ last.state = EXAMPLE

(***************************************************************************)
(* C6                                                                      *)
(***************************************************************************)
\* C6: /add from an admin whose conversation is open, at whatever stage,
\* puts the conversation at the term stage, so that the next text is taken
\* as the term.
C6_ReentryRestarts ==
    [][ \A k \in Keys :
          (Privileged(k[2]) /\ Open(k)
           /\ (\/ add_word_start(k[1], k[2])
               \/ unhandled(k[1], k[2], "/add", << >>)))
          => /\ conv'[k] = WORD
             /\ HandlerFor(conv'[k], "text", << >>) = "receive_word"
      ]_vars

(***************************************************************************)
(* C7                                                                      *)
(***************************************************************************)
\* C7: no user ever has more than one open conversation, whatever chats the
\* user writes in.
C7_OneSessionPerActor ==
    \A u \in Users : Cardinality({ k \in Keys : k[2] = u /\ Open(k) }) <= 1

(***************************************************************************)
(* C8                                                                      *)
(***************************************************************************)
\* C8: no two handlers are between their load and their save at once, and
\* every save writes the file as it was just before, changed at the
\* handler's own word only: no other update is lost.
C8_NoLostUpdate ==
    /\ [](Cardinality({ u \in Users : tasks[u].pc = "loaded" }) <= 1)
    /\ [][ \A u \in Users :
             /\ examples_save(u) =>
                  dictionary' = [w \in (DOMAIN dictionary) \cup {tasks[u].word} |->
                                   IF w = tasks[u].word THEN tasks[u].entry
                                   ELSE dictionary[w]]
             /\ delete_save(u) =>
                  dictionary' = [w \in (DOMAIN dictionary) \ {tasks[u].word} |->
                                   dictionary[w]]
         ]_vars

\* admin 1 has loaded the file for a delete while admin 2 is about to commit
\* another word
C8_Witness ==
    /\ tasks[1].pc = "loaded"
    /\ tasks[1].handler = "delete_word"
    /\ tasks[1].word \in DOMAIN dictionary
    /\ conv[<<1, 2>>] = EXAMPLE
    /\ user_data[2]["new_word"] # tasks[1].word

(***************************************************************************)
(* C9                                                                      *)
(***************************************************************************)
\* C9: a lookup of any case or outer-whitespace variant of a term that has
\* an entry returns that entry: its meaning and examples as last committed.
C9_VariantLookup ==
    [][ \A k \in Keys : \A q \in Queries :
          (Normalized(q) \in DOMAIN dictionary /\ search_words(k[1], k[2], q))
          => last'.found =
                << [word |-> Normalized(q),
                    meaning |-> dictionary[Normalized(q)].meaning,
                    examples |-> dictionary[Normalized(q)].examples] >>
      ]_vars

(***************************************************************************)
(* C10                                                                     *)
(***************************************************************************)
\* C10: /delete of a term by an admin removes the entry of its normalized
\* form and reports success when there is one, and otherwise reports
\* not-found, leaves the dictionary unchanged and does not write the file.
C10_Delete ==
    [][ \A k \in Keys : \A t \in DeleteArgs :
          (Privileged(k[2]) /\ Normalized(t) # << >> /\ delete_word(k[1], k[2], t))
          => IF Normalized(t) \in DOMAIN dictionary
             THEN /\ Normalized(t) \notin DOMAIN dictionary'
                  /\ last'.kind = "deleted"
             ELSE /\ dictionary' = dictionary
                  /\ last'.kind = "not_found"
                  /\ ~last'.saved
      ]_vars

C12_NoEmptyNoRepeat ==
    (last.handler = "search_words" /\ last.kind = "results")
    => LET matched == [i \in 1..Len(last.found) |-> last.found[i].word]
       IN /\ << >> \notin Range(matched) \cup Range(last.words)
          /\ NoRepeat(matched)
          /\ NoRepeat(last.words)

(***************************************************************************)
(* C13                                                                     *)
(***************************************************************************)
\* a step of the /add dialogue taken in conversation k
DialogueStep(k) ==
    \/ last'.handler = "add_word_start" /\ add_word_start(k[1], k[2])
    \/ last'.handler = "receive_word"
        /\ \E t \in TermInputs : receive_word(k[1], k[2], t)
    \/ last'.handler = "receive_meaning"
        /\ \E m \in MeaningInputs : receive_meaning(k[1], k[2], m)
    \/ last'.handler = "receive_examples"
        /\ \E x \in ExampleInputs : receive_examples(k[1], k[2], x)
    \/ last'.handler = "cancel_add" /\ cancel_add(k[1], k[2])
    \/ last'.handler = "button_callback"
        /\ \E d \in CallbackData : button_callback(k[1], k[2], d)

\* C13: a step of one user's /add dialogue leaves the conversation states
\* and the pending term and meaning of every other user as they were, and a
\* commit writes, under the committing user's own pending term, that user's
\* own pending meaning and the examples just sent.
C13_ActorsIndependent ==
    [][ \A a \in Keys :
          /\ DialogueStep(a)
              => \A b \in Users \ {a[2]} :
                    /\ user_data'[b] = user_data[b]
                    /\ \A k \in Keys : k[2] = b => conv'[k] = conv[k]
          /\ \A x \in ExampleInputs :
                (last'.kind = "added" /\ receive_examples(a[1], a[2], x))
                => /\ dictionary'[user_data[a[2]]["new_word"]] =
                         [meaning |-> user_data[a[2]]["meaning"],
                          examples |-> TrimmedLines(x)]
                   /\ \A w \in DOMAIN dictionary' :
                         w # user_data[a[2]]["new_word"]
                         => w \in DOMAIN dictionary /\ dictionary'[w] = dictionary[w]
      ]_vars

\* a user has committed a term while another user's conversation waits for
\* its examples with the same term and another meaning pending
C13_Witness ==
    /\ last.kind = "added"
    /\ \E k \in Keys :
          /\ conv[k] = EXAMPLE
          /\ user_data[k[2]]["meaning"] # dictionary[last.words[1]].meaning
          /\ user_data[k[2]]["new_word"] = last.words[1]

(***************************************************************************)
(* C14                                                                     *)
(***************************************************************************)
\* C14: while a conversation stays at the meaning or the examples stage its
\* pending term is set and no step changes it, and the examples text sent
\* at the examples stage commits under that term and ends the conversation,
\* whether or not the term is in the dictionary by then.
C14_PendingTermFixed ==
    [][ \A k \in Keys :
          /\ (conv[k] \in {MEANING, EXAMPLE} /\ conv'[k] \in {MEANING, EXAMPLE})
              => /\ "new_word" \in DOMAIN user_data[k[2]]
                 /\ "new_word" \in DOMAIN user_data'[k[2]]
                 /\ user_data'[k[2]]["new_word"] = user_data[k[2]]["new_word"]
          /\ \A x \in ExampleInputs :
                (last'.handler = "receive_examples" /\ conv[k] = EXAMPLE
                 /\ receive_examples(k[1], k[2], x))
                => /\ last'.kind = "added"
                   /\ "new_word" \in DOMAIN user_data[k[2]]
                   /\ user_data[k[2]]["new_word"] \in DOMAIN dictionary'
                   /\ ~Open(k)'
      ]_vars

(***************************************************************************)
(* C15                                                                     *)
(***************************************************************************)
\* user u has an open conversation
HasSession(u) == \E j \in Keys : j[2] = u /\ Open(j)

\* a plain text sent in conversation k has been handled
TextStep(k) ==
    \/ last'.handler = "search_words"
        /\ \E q \in Queries : search_words(k[1], k[2], q)
    \/ last'.handler = "receive_word"
        /\ \E t \in TermInputs : receive_word(k[1], k[2], t)
    \/ last'.handler = "receive_meaning"
        /\ \E m \in MeaningInputs : receive_meaning(k[1], k[2], m)
    \/ last'.handler = "receive_examples"
        /\ \E x \in ExampleInputs : receive_examples(k[1], k[2], x)

\* C15: a plain text from a user who has an open conversation is handled by
\* a handler of the /add dialogue and never by the search; a plain text
\* from a user who has none is handled by the search, which opens no
\* conversation and changes neither the pending fields nor the dictionary.
C15_RoutingBySession ==
    [][ \A k \in Keys :
          TextStep(k)
          => IF HasSession(k[2])
             THEN last'.handler \in {"receive_word", "receive_meaning",
                                     "receive_examples"}
             ELSE /\ last'.handler = "search_words"
                  /\ conv' = conv
                  /\ user_data' = user_data
                  /\ dictionary' = dictionary
      ]_vars

(***************************************************************************)
(* C16                                                                     *)
(***************************************************************************)
\* C16: a conversation that is open is closed only by a cancel (command or
\* button) or by the commit of receive_examples, sent in that conversation
\* by its own user; a search, /delete, /list, /stats, /backup, an update no
\* handler accepts and every dialogue step of another user leave its state
\* as it was.
C16_SessionPersists ==
    [][ \A k \in Keys :
          Open(k) =>
            /\ ~Open(k)'
                => \/ /\ last'.kind = "cancelled"
                      /\ \/ cancel_add(k[1], k[2])
                         \/ button_callback(k[1], k[2], << "cancel_add" >>)
                   \/ /\ last'.kind = "added"
                      /\ \E x \in ExampleInputs : receive_examples(k[1], k[2], x)
            /\ last'.handler \in {"search_words", "delete_word", "list_words",
                                  "stats", "backup", "none"}
                => conv'[k] = conv[k]
            /\ \A a \in Keys :
                  (a[2] # k[2] /\ DialogueStep(a)) => conv'[k] = conv[k]
      ]_vars

\* a user without a conversation has deleted the very word that is pending
\* in a conversation waiting for its examples
C16_Witness ==
    /\ last.handler = "delete_word"
    /\ last.kind = "deleted"
    /\ last.state = END
    /\ \E k \in Keys :
          /\ conv[k] = EXAMPLE
          /\ user_data[k[2]]["new_word"] = last.words[1]

(***************************************************************************)
(* C17                                                                     *)
(***************************************************************************)
\* C17: every step that changes the dictionary is the commit of
\* receive_examples or a /delete sent by an admin; a user who is no admin
\* never has an open conversation, and no update of such a user, whatever
\* its kind, changes the dictionary.
C17_OnlyPrivilegedWrites ==
    /\ [](\A k \in Keys : ~Privileged(k[2]) => ~Open(k))
    /\ [][ dictionary' # dictionary
           => /\ \E k \in Keys :
                    /\ Privileged(k[2])
                    /\ \/ \E x \in ExampleInputs : receive_examples(k[1], k[2], x)
                       \/ \E t \in DeleteArgs : delete_word(k[1], k[2], t)
              /\ \A k \in Keys :
                    ~Privileged(k[2])
                    => ~Handle(k[1], k[2], TermInputs, DeleteArgs, Queries)
         ]_vars

\* /delete from a user who is no admin was refused while the group chat
\* shows a collision prompt and the dictionary still has its word
C17_Witness ==
    /\ last.handler = "delete_word"
    /\ last.kind = "admins_only"
    /\ keyboard[1] # << >>
    /\ << "a" >> \in DOMAIN dictionary

(***************************************************************************)
(* C18                                                                     *)
(***************************************************************************)
\* C18: a conversation at the meaning stage has its user's pending term
\* set, one at the examples stage has the pending term and the pending
\* meaning set, and receive_examples never fails on a missing field.
C18_PendingDefined ==
    /\ \A k \in Keys :
          /\ conv[k] = MEANING => "new_word" \in DOMAIN user_data[k[2]]
          /\ conv[k] = EXAMPLE
              => {"new_word", "meaning"} \subseteq DOMAIN user_data[k[2]]
    /\ last.kind # "KeyError"

(***************************************************************************)
(* C19                                                                     *)
(***************************************************************************)
\* C19: every key of the dictionary is its own normalized form, and no two
\* keys have the same normalized form.
C19_KeysNormalized ==
    /\ \A w \in DOMAIN dictionary : Normalized(w) = w
    /\ \A w1, w2 \in DOMAIN dictionary :
          Normalized(w1) = Normalized(w2) => w1 = w2

(***************************************************************************)
(* C20                                                                     *)
(***************************************************************************)
\* C20: a commit sets the entry of the pending term to the pending meaning
\* and the examples just sent, nothing of an earlier entry of the term
\* being kept, and leaves every other entry as it was; a /delete that
\* succeeds removes the entry of its word and leaves every other entry as
\* it was.
C20_OwnTermOnly ==
    [][ /\ last'.kind = "added"
           => \A k \in Keys : \A x \in ExampleInputs :
                 receive_examples(k[1], k[2], x)
                 => LET t == user_data[k[2]]["new_word"]
                    IN /\ DOMAIN dictionary' = DOMAIN dictionary \cup {t}
                       /\ dictionary'[t].meaning = user_data[k[2]]["meaning"]
                       /\ dictionary'[t].examples = TrimmedLines(x)
                       /\ \A w \in DOMAIN dictionary \ {t} :
                             dictionary'[w] = dictionary[w]
        /\ last'.kind = "deleted"
           => \A k \in Keys : \A a \in DeleteArgs :
                 delete_word(k[1], k[2], a)
                 => LET t == last'.words[1]
                    IN /\ t \in DOMAIN dictionary
                       /\ DOMAIN dictionary' = DOMAIN dictionary \ {t}
                       /\ \A w \in DOMAIN dictionary' :
                             dictionary'[w] = dictionary[w]
      ]_vars

\* a term for which the collision prompt was shown has been committed with
\* no examples while the dictionary holds another word
C20_Witness ==
    /\ last.kind = "added"
    /\ keyboard[1] # << >>
    /\ keyboard[1][1] = << "update_" >> \o last.words[1]
    /\ dictionary[last.words[1]].examples = << >>
    /\ Cardinality(DOMAIN dictionary) = 2

====
